---- MODULE Spec2Model ----
(***************************************************************************)
(* Roblox Activity Tracker (src/Main.py): the polling loop of main(), the  *)
(* three resource fetchers, the notifier and the embed builder.            *)
(*                                                                         *)
(* Python values are encoded so that TLC compares like with like:          *)
(*   - None among integers (ids, states) is NoneInt, among strings NoneStr;*)
(*   - a missing dictionary key is the same as None for dict.get(key),     *)
(*     except userPresenceType, whose get() has the default 0: a record    *)
(*     without that key carries NoField;                                   *)
(*   - an HTTP exchange is a record [kind, body]: kind "transport_error"   *)
(*     (requests raises a RequestException), "http_error" (non-2xx status, *)
(*     raise_for_status raises HTTPError), "wrong_shape" (2xx, valid JSON  *)
(*     that is not an object, so .get raises AttributeError) or "ok".      *)
(***************************************************************************)
EXTENDS Integers, Sequences, FiniteSets, TLC

VARIABLES
    pc,            \* position of main(): see PCs
    user_ids,      \* main: user_ids (list loaded at startup)
    last_states,   \* main: last_states, a function whose DOMAIN is the keys
    presences,     \* main: presences, the list of the current cycle
    idx,           \* position of the for loop in presences (1-based)
    username,      \* main: username
    display_name,  \* main: display_name
    game_name,     \* main: game_name
    embed,         \* embed handed to send_webhook in the current iteration
    delivered,     \* outcome of that send_webhook: "none", "ok", "failed"
    calls,         \* external calls of the current cycle, in order
    last_state,    \* main: last_state
    presence_result, \* kind of the cycle's presence exchange, "none" before it
    session,       \* main: session, NoSession before line 161
    observed,      \* history: per user, the state of the last record processed
    seed,          \* history: the response to the seed request of the session
    req,           \* HTTP layer: the outbound call in progress
    outcomes       \* HTTP layer: the outcomes of its attempts, in order

vars == <<pc, user_ids, last_states, presences, idx, username, display_name,
          game_name, embed, delivered, calls, last_state, presence_result,
          session, observed, seed, req, outcomes>>

\* the variables of the HTTP layer, which main() does not read
httpvars == <<seed, req, outcomes>>

\* ---------------------------------------------------------------- bounds
MaxRecords == 2

\* ------------------------------------------------------ Python encodings
NoneInt == -1
NoField == -2
NoneStr == "<None>"

TruthyInt(x) == x # NoneInt /\ x # 0
TruthyStr(s) == s # NoneStr /\ s # ""

\* a or b, on strings
OrStr(a, b) == IF TruthyStr(a) THEN a ELSE b

\* f"{x}" of a string or None
Fmt(s) == IF s = NoneStr THEN "None" ELSE s

\* str(presence['userId'])
Str(n) == CASE n = 5 -> "5"
            [] n = 6 -> "6"
            [] n = 7 -> "7"
            [] OTHER -> "?"

\* ------------------------------------------------------- program constants
OFFLINE == 0
ONLINE == 1
INGAME == 2

COLOR_OFFLINE == 16711680
COLOR_ONLINE == 16776960
COLOR_INGAME == 65280
COLOR_PRIVATE == 65535

UNKNOWN_GAME == "Unknown Game"

\* ------------------------------------------------------------ input domains
PresenceRecord(u, s, p, g, v) ==
    [userId |-> u, userPresenceType |-> s, placeId |-> p, gameId |-> g,
     universeId |-> v]

\* <<placeId, gameId, universeId>> of an in-game record: all present, hidden
\* by the privacy setting (with and without the universe), and the ones where
\* one identifier is null or zero
InGameIds == {<<10, 20, 99>>, <<NoneInt, NoneInt, 99>>, <<NoneInt, NoneInt, NoneInt>>,
              <<0, 20, 99>>, <<10, NoneInt, NoneInt>>, <<10, 20, 0>>}

\* Records the presence endpoint can return. User 5 takes every shape: no
\* userPresenceType, the three handled states, the unhandled state 3 (Roblox
\* reports 3 for a user in Studio), every in-game shape. User 6 is the second
\* tracked user. One record lacks userId. User 7 is in no list of tracked
\* users: the loop takes the records as they come, whatever was asked for.
PresenceRecords ==
    {PresenceRecord(5, s, NoneInt, NoneInt, NoneInt) : s \in {NoField, 0, 1, 3}}
    \cup {PresenceRecord(5, 2, t[1], t[2], t[3]) : t \in InGameIds}
    \cup {PresenceRecord(6, 0, NoneInt, NoneInt, NoneInt),
          PresenceRecord(6, 1, NoneInt, NoneInt, NoneInt),
          PresenceRecord(6, 2, 10, 20, NoneInt),
          PresenceRecord(NoneInt, 1, NoneInt, NoneInt, NoneInt),
          PresenceRecord(7, 1, NoneInt, NoneInt, NoneInt)}

RECURSIVE SeqsUpTo(_, _)
SeqsUpTo(S, n) ==
    IF n = 0 THEN {<<>>}
    ELSE LET shorter == SeqsUpTo(S, n - 1)
         IN shorter \cup {Append(q, r) : q \in {t \in shorter : Len(t) = n - 1}, r \in S}

HttpFailures == {[kind |-> k, body |-> <<>>] :
                    k \in {"transport_error", "http_error", "wrong_shape"}}

PresenceResponses ==
    HttpFailures \cup
    {[kind |-> "ok", body |-> q] : q \in SeqsUpTo(PresenceRecords, MaxRecords)}

\* body: the 'data' list of the games endpoint; an entry without 'name'
\* carries NoneStr
GameResponses ==
    HttpFailures \cup
    {[kind |-> "ok", body |-> d] : d \in {<<>>, <<"Jailbreak">>, <<NoneStr>>}}

\* body: <<name, displayName>>, each NoneStr when the key is missing
UserResponses ==
    HttpFailures \cup
    {[kind |-> "ok", body |-> b] :
        b \in {<<"bob", "Bob">>, <<"bob", NoneStr>>, <<NoneStr, NoneStr>>}}

WebhookResponses == {"ok", "transport_error", "http_error"}

UserLists == {<<>>, <<"5", "6">>}

\* Assets/users.json: unreadable (missing, not JSON), or holding a list
UserFiles == {[readable |-> FALSE, content |-> <<>>]}
             \cup {[readable |-> TRUE, content |-> ids] : ids \in UserLists}

\* ---------------------------------------------------------------- fetchers
\* Each fetcher returns [raised, value]: raised when an exception other than
\* requests.RequestException leaves the function.
Returned(v) == [raised |-> FALSE, value |-> v]
Raised == [raised |-> TRUE, value |-> <<>>]

\* get_presence without its except clause: a failed exchange raises
get_presence_NoFallback(resp) ==
    IF resp.kind = "ok" THEN Returned(resp.body) ELSE Raised

get_presence(resp) ==
    CASE resp.kind = "ok" -> Returned(resp.body)
      [] resp.kind \in {"transport_error", "http_error"} -> Returned(<<>>)
      [] OTHER -> Raised

get_game_info(resp) ==
    CASE resp.kind = "ok" ->
            Returned(<<IF resp.body # <<>>
                       THEN (IF resp.body[1] = NoneStr THEN UNKNOWN_GAME
                             ELSE resp.body[1])
                       ELSE UNKNOWN_GAME>>)
      [] resp.kind \in {"transport_error", "http_error"} -> Returned(<<UNKNOWN_GAME>>)
      [] OTHER -> Raised

get_user_info(resp) ==
    CASE resp.kind = "ok" -> Returned(resp.body)
      [] resp.kind \in {"transport_error", "http_error"} -> Returned(<<NoneStr, NoneStr>>)
      [] OTHER -> Raised

\* send_webhook never raises: every failure is a RequestException, logged
send_webhook(resp) == IF resp = "ok" THEN "ok" ELSE "failed"

\* ----------------------------------------------------------------- session
\* The session of create_authenticated_session: what is set on it. csrf is
\* the X-CSRF-TOKEN header, NoneStr when it is not set.
Session(csrf) ==
    [created |-> TRUE, cookie |-> TRUE, retry |-> TRUE, user_agent |-> TRUE,
     csrf |-> csrf]

NoSession ==
    [created |-> FALSE, cookie |-> FALSE, retry |-> FALSE, user_agent |-> FALSE,
     csrf |-> NoneStr]

\* What session.post gives the seed request: a RequestException, or a
\* response with its status and its x-csrf-token header (NoneStr: no header)
SeedResponse(kind, status, token) == [kind |-> kind, status |-> status, token |-> token]
NoSeed == SeedResponse("none", 0, NoneStr)
SeedResponses ==
    {SeedResponse("transport_error", 0, NoneStr)}
    \cup {SeedResponse("ok", st, t) : st \in {200, 403}, t \in {NoneStr, "tok"}}

\* the status test dropped: the token is taken from any response that has one
create_authenticated_session_AnyStatus(resp) ==
    Session(IF resp.kind = "ok" /\ resp.token # NoneStr THEN resp.token ELSE NoneStr)

create_authenticated_session(resp) ==
    Session(IF resp.kind = "ok" /\ resp.status = 403 /\ resp.token # NoneStr
            THEN resp.token ELSE NoneStr)

\* ------------------------------------------------------------------ embeds
NoUrl == <<>>
JoinUrl(place_id, game_id) == <<"games/start", place_id, game_id>>
GamePageUrl(place_id) == <<"games", place_id>>

Embed(who, what, color, description, url, fields) ==
    [who |-> who, what |-> what, color |-> color, description |-> description,
     url |-> url, fields |-> fields]

NoEmbed == Embed("", "", 0, "", NoUrl, <<>>)

\* build_embed_in_game testing 'place_id or game_id'
build_embed_in_game_Or(presence, gname, uname, dname) ==
    LET place_id == presence.placeId
        game_id == presence.gameId
    IN IF TruthyInt(place_id) \/ TruthyInt(game_id)
       THEN Embed(Fmt(OrStr(dname, uname)), " is now in-game", COLOR_INGAME, gname,
                  JoinUrl(place_id, game_id),
                  <<[name |-> "Join Server", value |-> JoinUrl(place_id, game_id)],
                    [name |-> "Game Page", value |-> GamePageUrl(place_id)]>>)
       ELSE Embed(Fmt(OrStr(dname, uname)), " is in a game", COLOR_PRIVATE,
                  "Joins are off, check badges for hint of game.", NoUrl, <<>>)

build_embed_in_game(presence, gname, uname, dname) ==
    LET place_id == presence.placeId
        game_id == presence.gameId
    IN IF TruthyInt(place_id) /\ TruthyInt(game_id)
       THEN Embed(Fmt(OrStr(dname, uname)), " is now in-game", COLOR_INGAME, gname,
                  JoinUrl(place_id, game_id),
                  <<[name |-> "Join Server", value |-> JoinUrl(place_id, game_id)],
                    [name |-> "Game Page", value |-> GamePageUrl(place_id)]>>)
       ELSE Embed(Fmt(OrStr(dname, uname)), " is in a game", COLOR_PRIVATE,
                  "Joins are off, check badges for hint of game.", NoUrl, <<>>)

build_embed_offline(user_id, uname, dname) ==
    Embed(Fmt(OrStr(OrStr(dname, uname), user_id)), " is Offline", COLOR_OFFLINE,
          "", NoUrl, <<>>)

build_embed_online(user_id, uname, dname) ==
    Embed(Fmt(OrStr(OrStr(dname, uname), user_id)), " is Online (not in-game)",
          COLOR_ONLINE, "", NoUrl, <<>>)

\* --------------------------------------------------------------- main loop
PCs == {"start", "fetch", "loop", "user_info", "dispatch", "game_info", "sleep",
        "crashed", "exited"}

NoTable == [k \in {} |-> NoneInt]

\* state = presence.get('userPresenceType', 0)
State(presence) ==
    IF presence.userPresenceType = NoField THEN 0 ELSE presence.userPresenceType

\* the lookup forgotten: every record looks like a first observation
LastState_NoLookup(table, user_id) == NoneInt

\* last_state = last_states.get(user_id)
LastState(table, user_id) ==
    IF user_id \in DOMAIN table THEN table[user_id] ELSE NoneInt

\* the comparison dropped: every record is acted on
StateChanged_Always(state, last) == TRUE

\* if state != last_state
StateChanged(state, last) == state # last

\* setdefault instead of assignment: an existing entry is kept
UpdateLastStates_KeepFirst(table, user_id, state) ==
    [k \in DOMAIN table \cup {user_id} |->
        IF k \in DOMAIN table THEN table[k] ELSE state]

\* last_states[user_id] = state
UpdateLastStates(table, user_id, state) ==
    [k \in DOMAIN table \cup {user_id} |-> IF k = user_id THEN state ELSE table[k]]

\* the history of the records processed, per user
Observe(seen, user_id, state) ==
    [k \in DOMAIN seen \cup {user_id} |-> IF k = user_id THEN state ELSE seen[k]]

\* no request in progress
NoRequest == [op |-> "none", via |-> "none", done |-> TRUE]

\* the test of the universe id dropped
HasUniverse_Always(presence) == TRUE

\* if universe_id
HasUniverse(presence) == TruthyInt(presence.universeId)

\* the list walked from its end
RecordIndex_Reversed == Len(presences) - idx + 1

\* for presence in presences: the position in the list of the record the
\* loop is at in its idx-th iteration
RecordIndex == idx

CurrentRecord == presences[RecordIndex]
CurrentUser == Str(CurrentRecord.userId)
CurrentState == State(CurrentRecord)

\* an external call, with the position of the record it is made for
Call(op) == [op |-> op, rec |-> RecordIndex]
PresenceCall == [op |-> "get_presence", rec |-> 0, ids |-> user_ids]
GameInfoCall ==
    [op |-> "get_game_info", rec |-> RecordIndex, universe |-> CurrentRecord.universeId]

Init ==
    /\ pc = "start"
    /\ user_ids = <<>>
    /\ last_states = NoTable
    /\ presences = <<>>
    /\ idx = 1
    /\ username = NoneStr
    /\ display_name = NoneStr
    /\ game_name = UNKNOWN_GAME
    /\ embed = NoEmbed
    /\ delivered = "none"
    /\ calls = <<>>
    /\ last_state = NoneInt
    /\ presence_result = "none"
    /\ session = NoSession
    /\ observed = NoTable
    /\ seed = NoSeed
    /\ req = NoRequest
    /\ outcomes = <<>>

\* load_user_ids: the list of the file, [] when it cannot be read
load_user_ids(file) == IF file.readable THEN file.content ELSE <<>>

\* the emptiness test dropped
ShouldExit_Never(ids) == FALSE

\* if not user_ids
ShouldExit(ids) == ids = <<>>

\* main, lines 161-168
Startup ==
    /\ pc = "start"
    /\ \E sr \in SeedResponses : session' = create_authenticated_session(sr)
    /\ \E file \in UserFiles :
        /\ user_ids' = load_user_ids(file)
        /\ pc' = IF ShouldExit(load_user_ids(file)) THEN "exited" ELSE "fetch"
    /\ UNCHANGED <<last_states, presences, idx, username, display_name, game_name,
                   embed, delivered, calls, last_state, presence_result, observed,
                   httpvars>>

\* main, line 171
FetchPresence ==
    /\ pc = "fetch"
    /\ \E resp \in PresenceResponses :
        LET r == get_presence(resp)
        IN /\ presence_result' = resp.kind
           /\ IF r.raised
              THEN /\ pc' = "crashed"
                   /\ UNCHANGED presences
              ELSE /\ pc' = "loop"
                   /\ presences' = r.value
    /\ idx' = 1
    /\ calls' = <<PresenceCall>>
    /\ UNCHANGED <<user_ids, last_states, username, display_name, game_name, embed,
                   delivered, last_state>>
    /\ UNCHANGED <<session, observed, httpvars>>

\* the loop left one record early
EndOfRecords_Early ==
    /\ pc = "loop"
    /\ idx > Len(presences) - 1
    /\ pc' = "sleep"
    /\ UNCHANGED <<user_ids, last_states, presences, idx, username, display_name,
                   game_name, embed, delivered, calls, last_state, presence_result>>
    /\ UNCHANGED <<session, observed, httpvars>>

\* main, line 173: the list is exhausted
EndOfRecords ==
    /\ pc = "loop"
    /\ idx > Len(presences)
    /\ pc' = "sleep"
    /\ UNCHANGED <<user_ids, last_states, presences, idx, username, display_name,
                   game_name, embed, delivered, calls, last_state, presence_result>>
    /\ UNCHANGED <<session, observed, httpvars>>

\* main, line 174: presence['userId'] raises KeyError
MissingUserId ==
    /\ pc = "loop"
    /\ idx <= Len(presences)
    /\ CurrentRecord.userId = NoneInt
    /\ pc' = "crashed"
    /\ UNCHANGED <<user_ids, last_states, presences, idx, username, display_name,
                   game_name, embed, delivered, calls, last_state, presence_result>>
    /\ UNCHANGED <<session, observed, httpvars>>

\* main, lines 174-176: the iteration binds user_id, state and last_state;
\* the values the previous iteration left in the other locals are dead
EnterIteration ==
    /\ last_state' = LastState(last_states, CurrentUser)
    /\ username' = NoneStr
    /\ display_name' = NoneStr
    /\ game_name' = UNKNOWN_GAME
    /\ embed' = NoEmbed
    /\ delivered' = "none"

\* main, lines 174-179: the state equals the table's entry
SkipUnchanged ==
    /\ pc = "loop"
    /\ idx <= Len(presences)
    /\ CurrentRecord.userId # NoneInt
    /\ ~StateChanged(CurrentState, LastState(last_states, CurrentUser))
    /\ EnterIteration
    /\ idx' = idx + 1
    /\ UNCHANGED <<pc, user_ids, last_states, presences, calls, presence_result>>
    /\ observed' = Observe(observed, CurrentUser, CurrentState)
    /\ UNCHANGED <<session, httpvars>>

\* main, lines 174-179: the state differs
DetectChange ==
    /\ pc = "loop"
    /\ idx <= Len(presences)
    /\ CurrentRecord.userId # NoneInt
    /\ StateChanged(CurrentState, LastState(last_states, CurrentUser))
    /\ EnterIteration
    /\ pc' = "user_info"
    /\ UNCHANGED <<user_ids, last_states, presences, idx, calls, presence_result>>
    /\ UNCHANGED <<session, observed, httpvars>>

\* main, line 180
FetchUserInfo ==
    /\ pc = "user_info"
    /\ \E resp \in UserResponses :
        LET r == get_user_info(resp)
        IN IF r.raised
           THEN /\ pc' = "crashed"
                /\ UNCHANGED <<username, display_name>>
           ELSE /\ pc' = "dispatch"
                /\ username' = r.value[1]
                /\ display_name' = r.value[2]
    /\ calls' = Append(calls, Call("get_user_info"))
    /\ UNCHANGED <<user_ids, last_states, presences, idx, game_name, embed, delivered,
                   last_state, presence_result>>
    /\ UNCHANGED <<session, observed, httpvars>>

\* send_webhook(embed) followed by line 209
SendAndUpdate(e, before) ==
    /\ \E w \in WebhookResponses : delivered' = send_webhook(w)
    /\ embed' = e
    /\ calls' = before \o <<Call("send_webhook")>>
    /\ last_states' = UpdateLastStates(last_states, CurrentUser, CurrentState)
    /\ idx' = idx + 1
    /\ pc' = "loop"
    /\ observed' = Observe(observed, CurrentUser, CurrentState)

\* main, lines 183-188 and 209
NotifyOffline ==
    /\ pc = "dispatch"
    /\ CurrentState = OFFLINE
    /\ SendAndUpdate(build_embed_offline(CurrentUser, username, display_name), calls)
    /\ UNCHANGED <<user_ids, presences, username, display_name, game_name, last_state,
                   presence_result>>
    /\ UNCHANGED <<session, httpvars>>

\* main, lines 191-196 and 209
NotifyOnline ==
    /\ pc = "dispatch"
    /\ CurrentState = ONLINE
    /\ SendAndUpdate(build_embed_online(CurrentUser, username, display_name), calls)
    /\ UNCHANGED <<user_ids, presences, username, display_name, game_name, last_state,
                   presence_result>>
    /\ UNCHANGED <<session, httpvars>>

\* main, lines 199-202 with a universe id: on to get_game_info
InGameWithUniverse ==
    /\ pc = "dispatch"
    /\ CurrentState = INGAME
    /\ HasUniverse(CurrentRecord)
    /\ pc' = "game_info"
    /\ UNCHANGED <<user_ids, last_states, presences, idx, username, display_name,
                   game_name, embed, delivered, calls, last_state, presence_result>>
    /\ UNCHANGED <<session, observed, httpvars>>

\* main, lines 199-209 without a universe id
NotifyInGameNoUniverse ==
    /\ pc = "dispatch"
    /\ CurrentState = INGAME
    /\ ~HasUniverse(CurrentRecord)
    /\ game_name' = UNKNOWN_GAME
    /\ SendAndUpdate(build_embed_in_game(CurrentRecord, UNKNOWN_GAME, username,
                                         display_name), calls)
    /\ UNCHANGED <<user_ids, presences, username, display_name, last_state,
                   presence_result>>
    /\ UNCHANGED <<session, httpvars>>

\* main, lines 203-209
FetchGameInfoAndNotify ==
    /\ pc = "game_info"
    /\ \E resp \in GameResponses :
        LET r == get_game_info(resp)
        IN IF r.raised
           THEN /\ pc' = "crashed"
                /\ calls' = Append(calls, GameInfoCall)
                /\ UNCHANGED <<last_states, idx, game_name, embed, delivered, observed>>
           ELSE /\ game_name' = r.value[1]
                /\ SendAndUpdate(build_embed_in_game(CurrentRecord, r.value[1],
                                                     username, display_name),
                                 Append(calls, GameInfoCall))
    /\ UNCHANGED <<user_ids, presences, username, display_name, last_state,
                   presence_result>>
    /\ UNCHANGED <<session, httpvars>>

\* main, lines 183-209 for a state outside 0, 1, 2: no branch is taken
UpdateOnly ==
    /\ pc = "dispatch"
    /\ CurrentState \notin {OFFLINE, ONLINE, INGAME}
    /\ last_states' = UpdateLastStates(last_states, CurrentUser, CurrentState)
    /\ idx' = idx + 1
    /\ pc' = "loop"
    /\ UNCHANGED <<user_ids, presences, username, display_name, game_name, embed,
                   delivered, calls, last_state, presence_result>>
    /\ observed' = Observe(observed, CurrentUser, CurrentState)
    /\ UNCHANGED <<session, httpvars>>

\* main, line 211. The values of the finished cycle are dead from here on
\* (line 171 rebinds presences, the for loop rebinds the rest): the cycle's
\* variables are cleared.
Sleep ==
    /\ pc = "sleep"
    /\ pc' = "fetch"
    /\ presences' = <<>>
    /\ idx' = 1
    /\ calls' = <<>>
    /\ presence_result' = "none"
    /\ last_state' = NoneInt
    /\ username' = NoneStr
    /\ display_name' = NoneStr
    /\ game_name' = UNKNOWN_GAME
    /\ embed' = NoEmbed
    /\ delivered' = "none"
    /\ UNCHANGED <<user_ids, last_states>>
    /\ UNCHANGED <<session, observed, httpvars>>

Next ==
    \/ Startup
    \/ FetchPresence
    \/ EndOfRecords
    \/ MissingUserId
    \/ SkipUnchanged
    \/ DetectChange
    \/ FetchUserInfo
    \/ NotifyOffline
    \/ NotifyOnline
    \/ InGameWithUniverse
    \/ NotifyInGameNoUniverse
    \/ FetchGameInfoAndNotify
    \/ UpdateOnly
    \/ Sleep

Spec == Init /\ [][Next]_vars

TypeOK ==
    /\ pc \in PCs
    /\ idx \in 1..(MaxRecords + 1)
    /\ DOMAIN last_states \subseteq {"5", "6", "7"}
    /\ session.created = (pc # "start")
    /\ delivered \in {"none", "ok", "failed"}
    /\ presence_result \in {"none", "ok", "transport_error", "http_error", "wrong_shape"}

\* -------------------------------------------------------------- HTTP layer
\* The outbound calls of the program, each with the object that makes it:
\* the session, on which the retrying adapter is mounted (lines 33-35), or
\* the requests module itself.
OutboundOps == {"csrf_seed", "get_presence", "get_game_info", "get_user_info",
                "send_webhook"}

\* every call made through the session
Transport_AllSession(op) == "session"

\* lines 39, 60, 79, 95: session.post / session.get; line 109: requests.post
Transport(op) == IF op = "send_webhook" THEN "plain" ELSE "session"

\* Retry(total=3, status_forcelist=[429, 500, 502, 503, 504])
RETRY_TOTAL == 3
STATUS_FORCELIST == {429, 500, 502, 503, 504}

\* The outcome of one attempt on the wire: status 0 is a transport failure
\* (no response: connection or read error), token the x-csrf-token header of
\* the response, retry_after whether it carries a Retry-After header
AttemptOutcome(status, token, retry_after) ==
    [status |-> status, token |-> token, retry_after |-> retry_after]
AttemptOutcomes ==
    {AttemptOutcome(st, NoneStr, FALSE) :
        st \in {0, 200, 403, 404, 413} \cup STATUS_FORCELIST}
    \cup {AttemptOutcome(200, "tok", FALSE), AttemptOutcome(403, "tok", FALSE),
          AttemptOutcome(413, NoneStr, TRUE)}

\* Retry.is_retry and the retried errors: a transport failure, a status of
\* the force list, and, respect_retry_after_header being left at its default
\* True, a 413 that carries Retry-After (429 and 503 are in the force list)
Retriable(o) ==
    \/ o.status = 0
    \/ o.status \in STATUS_FORCELIST
    \/ (o.status = 413 /\ o.retry_after)

\* urllib3 Retry: total is the number of retries allowed, so that a call is
\* re-attempted while fewer than total attempts have failed before this one;
\* without the adapter nothing is re-attempted
ShouldRetry(via, o, failed_before) ==
    via = "session" /\ Retriable(o) /\ failed_before < RETRY_TOTAL

\* What the caller of session.post gets from the last attempt: a retriable
\* outcome that is not retried any more surfaces as a RequestException
\* (ConnectionError, RetryError)
SeedResponseOf(o) ==
    IF Retriable(o) THEN SeedResponse("transport_error", 0, NoneStr)
    ELSE SeedResponse("ok", o.status, o.token)

mainvars == <<pc, user_ids, last_states, presences, idx, username, display_name,
              game_name, embed, delivered, calls, last_state, presence_result,
              observed>>

\* a call is issued: the seed request first (line 39, inside
\* create_authenticated_session), the others once the session exists
HttpBegin ==
    /\ req = NoRequest
    /\ \E op \in OutboundOps :
        /\ (op = "csrf_seed") <=> ~session.created
        /\ req' = [op |-> op, via |-> Transport(op), done |-> FALSE]
    /\ outcomes' = <<>>
    /\ UNCHANGED <<mainvars, session, seed>>

\* one attempt of the call in progress
HttpAttempt ==
    /\ req # NoRequest
    /\ ~req.done
    /\ \E o \in AttemptOutcomes :
        /\ outcomes' = Append(outcomes, o)
        /\ req' = [req EXCEPT !.done = ~ShouldRetry(req.via, o, Len(outcomes))]
    /\ UNCHANGED <<mainvars, session, seed>>

\* the call returns to its caller; lines 45-51 for the seed request
HttpFinish ==
    /\ req # NoRequest
    /\ req.done
    /\ IF req.op = "csrf_seed"
       THEN /\ seed' = SeedResponseOf(outcomes[Len(outcomes)])
            /\ session' = create_authenticated_session(SeedResponseOf(outcomes[Len(outcomes)]))
       ELSE UNCHANGED <<session, seed>>
    /\ req' = NoRequest
    /\ outcomes' = <<>>
    /\ UNCHANGED mainvars

HttpNext ==
    \/ HttpBegin
    \/ HttpAttempt
    \/ HttpFinish

HttpSpec == Init /\ [][HttpNext]_vars

\* ------------------------------------------------------------------ claims
\* The record at position idx - 1 has been processed to the end of its
\* iteration (line 209 or the skipped if), and last_state, username,
\* display_name, embed and delivered are the values of that iteration.
IterationDone == pc \in {"loop", "sleep"} /\ idx > 1
DoneRecord == presences[idx - 1]
DoneUser == Str(DoneRecord.userId)
DoneState ==
    IF DoneRecord.userPresenceType = NoField THEN 0 ELSE DoneRecord.userPresenceType

\* number of send_webhook calls made for the record at position j
Sends(j) ==
    Cardinality({i \in 1..Len(calls) : calls[i].op = "send_webhook" /\ calls[i].rec = j})

\* number of fetches (profile, game name) made for the record at position j
Fetches(j) ==
    Cardinality({i \in 1..Len(calls) :
                    calls[i].op \in {"get_user_info", "get_game_info"} /\ calls[i].rec = j})

\* the process died inside get_user_info or get_game_info, called for the
\* record at position idx
CrashedInRecord ==
    /\ pc = "crashed"
    /\ calls # <<>>
    /\ calls[Len(calls)].op \in {"get_user_info", "get_game_info"}

\* C1: for every record the loop has processed, a notification was sent if
\* and only if the record's state differed from the table's entry (last_state,
\* None when absent).
C1_NotifiedIffChanged ==
    IterationDone => ((Sends(idx - 1) >= 1) <=> (DoneState # last_state))

\* C2: the first record ever observed for a user (no table entry) causes
\* exactly one notification, whatever its state value.
C2_FirstObservationNotified ==
    (IterationDone /\ last_state = NoneInt) => Sends(idx - 1) = 1

\* C3 as claimed: the table holds InGame, the record is InGame again without
\* placeId and gameId, and the private-join variant is sent.
C3_RepeatedInGameNotified ==
    (/\ IterationDone
     /\ last_state = INGAME
     /\ DoneState = INGAME
     /\ DoneRecord.placeId = NoneInt
     /\ DoneRecord.gameId = NoneInt)
    => (/\ Sends(idx - 1) = 1
        /\ embed.what = " is in a game"
        /\ embed.url = NoUrl)

\* C3 as amended: for an InGame record without placeId and gameId, nothing
\* is sent when the table already holds InGame; a notification is sent only
\* when the table's entry differs from InGame, and then it is the
\* private-join variant (title '... is in a game', no join link, no fields).
C3_PrivateJoinOnlyOnChange ==
    (/\ IterationDone
     /\ DoneState = INGAME
     /\ DoneRecord.placeId = NoneInt
     /\ DoneRecord.gameId = NoneInt)
    => (/\ last_state = INGAME => (Sends(idx - 1) = 0 /\ embed = NoEmbed)
        /\ Sends(idx - 1) >= 1 =>
              (/\ last_state # INGAME
               /\ Sends(idx - 1) = 1
               /\ embed.what = " is in a game"
               /\ embed.color = COLOR_PRIVATE
               /\ embed.url = NoUrl
               /\ embed.fields = <<>>))

C3_Witness ==
    /\ IterationDone
    /\ last_state = INGAME
    /\ DoneState = INGAME
    /\ DoneRecord.placeId = NoneInt
    /\ DoneRecord.gameId = NoneInt
    /\ Sends(idx - 1) = 0

\* C4: when a change to Offline, Online or InGame is detected and the profile
\* fetch returned (None, None), a notification is sent whose title names the
\* user by the raw user id.
C4_RawIdFallback ==
    (/\ IterationDone
     /\ DoneState \in {OFFLINE, ONLINE, INGAME}
     /\ DoneState # last_state
     /\ username = NoneStr
     /\ display_name = NoneStr)
    => (Sends(idx - 1) = 1 /\ embed.who = DoneUser)

C6_NoFetchOutcomeStopsProcess == pc # "crashed"

\* C7: once the loop has left a record whose state differed from the table's
\* entry, the table holds the record's state for its user, whatever the
\* profile fetch, the game-name fetch and the webhook did.
C7_TableUpdatedAfterChange ==
    /\ (IterationDone /\ DoneState # last_state)
          => (DoneUser \in DOMAIN last_states /\ last_states[DoneUser] = DoneState)
    /\ CrashedInRecord
          => (CurrentUser \in DOMAIN last_states
              /\ last_states[CurrentUser] = CurrentState)

\* C8 as claimed: the embed sent for an InGame record carries the join link
\* of the record's placeId and gameId and the game-page link when both are
\* present (not None), and no link at all otherwise.
C8_JoinLinkWhenPresent ==
    (IterationDone /\ DoneState = INGAME /\ Sends(idx - 1) = 1)
    => IF DoneRecord.placeId # NoneInt /\ DoneRecord.gameId # NoneInt
       THEN /\ embed.url = <<"games/start", DoneRecord.placeId, DoneRecord.gameId>>
            /\ Len(embed.fields) = 2
       ELSE embed.url = NoUrl /\ embed.fields = <<>>

\* C8 as amended: the join link and the game-page link are there when both
\* placeId and gameId are present and truthy (neither None nor 0 nor empty),
\* and neither link nor fields are there otherwise.
C8_JoinLinkWhenTruthy ==
    (IterationDone /\ DoneState = INGAME /\ Sends(idx - 1) = 1)
    => IF DoneRecord.placeId \notin {NoneInt, 0} /\ DoneRecord.gameId \notin {NoneInt, 0}
       THEN /\ embed.url = <<"games/start", DoneRecord.placeId, DoneRecord.gameId>>
            /\ embed.fields =
                 <<[name |-> "Join Server",
                    value |-> <<"games/start", DoneRecord.placeId, DoneRecord.gameId>>],
                   [name |-> "Game Page", value |-> <<"games", DoneRecord.placeId>>]>>
            /\ embed.what = " is now in-game"
       ELSE embed.url = NoUrl /\ embed.fields = <<>> /\ embed.what = " is in a game"

C8_Witness ==
    /\ IterationDone
    /\ DoneState = INGAME
    /\ Sends(idx - 1) = 1
    /\ DoneRecord.placeId = 10
    /\ DoneRecord.gameId = 20
    /\ embed.url = <<"games/start", 10, 20>>

\* C9: a record whose state equals the table's entry for its user is passed
\* over in one step that calls nothing, sends nothing and leaves the table
\* alone; and a notification is only ever sent for a record whose state the
\* table does not hold before and holds after, so that a state repeated in
\* consecutive cycles is notified at most once.
C9_UnchangedTriggersNothing ==
    [][/\ (/\ pc = "loop"
           /\ idx <= Len(presences)
           /\ presences[idx].userId # NoneInt
           /\ Str(presences[idx].userId) \in DOMAIN last_states
           /\ last_states[Str(presences[idx].userId)] =
                 (IF presences[idx].userPresenceType = NoField THEN 0
                  ELSE presences[idx].userPresenceType))
            => (/\ pc' = "loop"
                /\ idx' = idx + 1
                /\ last_states' = last_states
                /\ calls' = calls
                /\ embed' = NoEmbed
                /\ delivered' = "none")
       /\ (/\ Len(calls') > Len(calls)
           /\ calls # <<>>
           /\ calls'[Len(calls')].op = "send_webhook")
            => LET u == Str(presences[idx].userId)
                   s == IF presences[idx].userPresenceType = NoField THEN 0
                        ELSE presences[idx].userPresenceType
               IN /\ ~(u \in DOMAIN last_states /\ last_states[u] = s)
                  /\ last_states'[u] = s
      ]_vars

C9_Witness ==
    /\ IterationDone
    /\ last_state = DoneState
    /\ DoneUser \in DOMAIN last_states
    /\ last_states[DoneUser] = DoneState
    /\ Sends(idx - 1) = 0
    /\ Fetches(idx - 1) = 0

\* C10: within a cycle the notifications are sent in the order of the
\* records in the list the presence fetch returned, one at most per record.
C10_NotificationsInRecordOrder ==
    \A i, j \in 1..Len(calls) :
        (i < j /\ calls[i].op = "send_webhook" /\ calls[j].op = "send_webhook")
            => calls[i].rec < calls[j].rec

C10_Witness ==
    /\ Len(presences) >= 2
    /\ Sends(1) = 1
    /\ Sends(2) = 1

\* number of get_game_info calls made for the record at position j
GameFetches(j) ==
    Cardinality({i \in 1..Len(calls) : calls[i].op = "get_game_info" /\ calls[i].rec = j})

StateOf(r) == IF r.userPresenceType = NoField THEN 0 ELSE r.userPresenceType

Tracked == {user_ids[i] : i \in 1..Len(user_ids)}

\* C11: once the loop has started (tracked list not empty) the process is
\* always in the loop: it never stops on its own.
C11_LoopNeverStops ==
    (pc # "start" /\ user_ids # <<>>)
    => pc \in {"fetch", "loop", "user_info", "dispatch", "game_info", "sleep"}

\* C12: with an empty or unreadable tracked-user list the loop never starts:
\* the process has exited, no presence, profile or game-name fetch was made,
\* nothing was sent and the table is empty, and it stays so.
C12_EmptyListNeverStarts ==
    (pc # "start" /\ user_ids = <<>>)
    => (/\ pc = "exited"
        /\ calls = <<>>
        /\ presence_result = "none"
        /\ presences = <<>>
        /\ last_states = NoTable
        /\ embed = NoEmbed
        /\ delivered = "none")

C12_Witness ==
    /\ pc = "exited"
    /\ user_ids = <<>>
    /\ session.created
    /\ calls = <<>>

\* C13 as claimed: every outbound call, the webhook POST included, is under
\* the retry policy: at most 3 attempts in total, an attempt is followed by
\* another only after a connection failure or a status of the force list,
\* and a call does not give up on such a failure before its 3 attempts.
C13_RetryPolicyOnAllCalls ==
    /\ Len(outcomes) <= 3
    /\ \A i \in 1..(Len(outcomes) - 1) :
          outcomes[i].status \in {0, 429, 500, 502, 503, 504}
    /\ (req.done /\ outcomes # <<>>
        /\ outcomes[Len(outcomes)].status \in {0, 429, 500, 502, 503, 504})
          => Len(outcomes) = 3

\* an attempt that failed in a way the policy retries
C13_RetriedFailure(o) ==
    \/ o.status \in {0, 429, 500, 502, 503, 504}
    \/ (o.status = 413 /\ o.retry_after)

\* C13 as amended: the retry policy is on the calls made through the session
\* (CSRF seed, presence, game name, user profile): at most 4 attempts in
\* total (one and 3 retries), re-attempted only after a transport failure, a
\* status in {429, 500, 502, 503, 504} or a 413 with a Retry-After header,
\* and given up on such a failure only after the 4th attempt. The webhook
\* POST goes through requests.post and is attempted once.
C13_RetryPolicyOnSessionCalls ==
    /\ req.op = "send_webhook" => Len(outcomes) <= 1
    /\ req.op \in {"csrf_seed", "get_presence", "get_game_info", "get_user_info"}
          => (/\ Len(outcomes) <= 4
              /\ (req.done /\ outcomes # <<>>
                  /\ C13_RetriedFailure(outcomes[Len(outcomes)]))
                    => Len(outcomes) = 4)
    /\ \A i \in 1..(Len(outcomes) - 1) : C13_RetriedFailure(outcomes[i])
    /\ req.op = "none" => outcomes = <<>>

C13_Witness ==
    /\ req.op = "get_presence"
    /\ req.done
    /\ Len(outcomes) = 4
    /\ outcomes[4].status = 503

\* C14 as claimed: a game-name fetch is made for a record exactly when its
\* state changed to InGame and it carries a universe id (not None).
C14_GameInfoWhenUniversePresent ==
    IterationDone
    => ((GameFetches(idx - 1) = 1)
        <=> (DoneState # last_state /\ DoneState = INGAME
             /\ DoneRecord.universeId # NoneInt))

\* C14 as amended: get_game_info is called only for a record whose state
\* changed to InGame and whose universe id is present and truthy (neither
\* None nor 0), once, with that universe id, right after the profile fetch
\* of the record; a changed InGame record with no or a zero universe id gets
\* no game-name fetch and the name "Unknown Game"; a record that is not
\* InGame gets no game-name fetch.
C14_GameInfoWhenUniverseTruthy ==
    /\ \A i \in 1..Len(calls) :
          calls[i].op = "get_game_info"
          => (/\ StateOf(presences[calls[i].rec]) = INGAME
              /\ presences[calls[i].rec].universeId \notin {NoneInt, 0}
              /\ calls[i].universe = presences[calls[i].rec].universeId
              /\ GameFetches(calls[i].rec) = 1
              /\ i > 1
              /\ calls[i - 1] = [op |-> "get_user_info", rec |-> calls[i].rec])
    /\ IterationDone
          => (/\ (GameFetches(idx - 1) = 1)
                   <=> (DoneState # last_state /\ DoneState = INGAME
                        /\ DoneRecord.universeId \notin {NoneInt, 0})
              /\ (DoneState # last_state /\ DoneState = INGAME
                  /\ DoneRecord.universeId \in {NoneInt, 0})
                   => (/\ GameFetches(idx - 1) = 0
                       /\ game_name = "Unknown Game"
                       /\ Sends(idx - 1) = 1
                       /\ embed.what = " is now in-game"
                             => embed.description = "Unknown Game"))

C14_Witness ==
    /\ IterationDone
    /\ DoneState = INGAME
    /\ DoneRecord.universeId = 99
    /\ GameFetches(idx - 1) = 1
    /\ calls[Len(calls) - 1].universe = 99

\* C15: the table holds, for every user of whom a record has been processed,
\* the state of the last such record, and no entry for any other user; the
\* entries of users without a record in a cycle are the ones they had.
C15_TableIsLastObservedState == last_states = observed

C15_Witness ==
    /\ pc = "sleep"
    /\ presences # <<>>
    /\ \A i \in 1..Len(presences) : presences[i].userId = 6
    /\ "5" \in DOMAIN last_states
    /\ "6" \in DOMAIN last_states
    /\ last_states["5"] = 3
    /\ last_states["6"] = StateOf(presences[Len(presences)])

\* C16: a cycle makes one presence fetch, for the whole tracked list, before
\* any other call of the cycle; the loop goes to sleep only when every record
\* of the list has been processed, and the next presence fetch is made only
\* after that sleep.
C16_CyclesSequential ==
    [][/\ (presence_result = "none" /\ presence_result' # "none")
            => (/\ pc = "fetch"
                /\ calls = <<>>
                /\ calls' = <<[op |-> "get_presence", rec |-> 0, ids |-> user_ids]>>)
       /\ calls' # <<>>
            => (/\ calls'[1].op = "get_presence"
                /\ calls'[1].ids = user_ids
                /\ \A i \in 2..Len(calls') : calls'[i].op # "get_presence")
       /\ (pc' = "fetch" /\ pc # "fetch")
            => (pc = "start" \/ (pc = "sleep" /\ idx = Len(presences) + 1))
       /\ (pc' = "sleep" /\ pc # "sleep")
            => (pc = "loop" /\ idx = Len(presences) + 1)
       /\ pc = "fetch" => (calls = <<>> /\ presence_result = "none")
      ]_vars

C16_Witness ==
    /\ pc = "loop"
    /\ idx = 1
    /\ Len(presences) = 2
    /\ calls = <<[op |-> "get_presence", rec |-> 0, ids |-> user_ids]>>
    /\ DOMAIN last_states = {"5", "6"}

\* C17: the session is built whatever the seed request gives: cookie, retry
\* policy and User-Agent are set, the X-CSRF-TOKEN header is set if and only
\* if the seed response has status 403 and an x-csrf-token header (and is
\* that header), a failed seed request leaves the session without the token;
\* the seed request is made once, before the session exists.
C17_SessionAlwaysBuilt ==
    /\ (seed # NoSeed) <=> session.created
    /\ session.created
          => (/\ session.cookie
              /\ session.retry
              /\ session.user_agent
              /\ (session.csrf # NoneStr)
                   <=> (seed.kind = "ok" /\ seed.status = 403 /\ seed.token # NoneStr)
              /\ session.csrf # NoneStr => session.csrf = seed.token)
    /\ req.op = "csrf_seed" => ~session.created

C17_Witness ==
    /\ session.created
    /\ seed.kind = "transport_error"
    /\ session.csrf = NoneStr
    /\ session.cookie /\ session.retry /\ session.user_agent

\* C18: every state stored in the table is one of Offline (0), Online (1),
\* InGame (2): a record with another state value is not stored.
C18_OnlyEnumeratedStatesStored ==
    \A u \in DOMAIN last_states : last_states[u] \in {OFFLINE, ONLINE, INGAME}

\* C19: every key of the table is a user of the tracked list loaded at
\* startup, and every notification sent is for a record of such a user.
C19_OnlyTrackedUsers ==
    /\ DOMAIN last_states \subseteq Tracked
    /\ \A i \in 1..Len(calls) :
          calls[i].op = "send_webhook"
          => Str(presences[calls[i].rec].userId) \in Tracked

====
